---- MODULE Spec2Model ----
(***************************************************************************)
(* Content-matching pipeline of the AI-Transcriber backend:                *)
(*   src/src/vector_store.py      PineconeVectorStore                      *)
(*   src/src/chunking_utils.py    ChunkingUtils                            *)
(*   src/api/utils/vector_handler.py  VectorHandler                        *)
(*                                                                         *)
(* Units.  Times are integers counting hundredths of a second, so the      *)
(* merger's 0.01 s tolerance is 1.  Scores, confidences and thresholds are *)
(* integers counting hundredths (0.7 is 70).  Ratios are compared by       *)
(* cross-multiplication, which agrees with the correctly rounded float     *)
(* division of the code for the small integers involved.                   *)
(***************************************************************************)
EXTENDS Integers, Sequences, FiniteSets, TLC

(***************************************************************************)
(* Bounds of the merger specification.                                     *)
(***************************************************************************)
MaxMatches == 3
MaxTime == 3

VARIABLES
    m_pc,       \* position of the merger run: "input", "merged", "remerged"
    m_in,       \* matches handed to _merge_overlapping_matches
    m_out,      \* its return value
    m_again,    \* the return value of a second application, to m_out
    cfg,        \* configuration seen by PineconeVectorStore.__init__
    self_index, \* PineconeVectorStore.index is set (not None)
    index,      \* records held by the Pinecone index
    stores,     \* number of store calls that generated record ids so far
    pc,         \* position of the handler the event loop is running
    reg,        \* locals of the running / last storage handler
    cmp,        \* locals of the running / last comparison handler
    calls,      \* external calls issued by the running / last handler
    result,     \* value returned by the last handler
    tasks,      \* number of background registration tasks created, not started
    a_pc,       \* position of the threshold run: "input", "applied"
    a_length,   \* secondary_length handed to the threshold policy
    a_threshold,\* caller-supplied threshold
    a_adjusted, \* adjusted_threshold computed from them
    c_pc,       \* position of the chunker run: "input", "chunked", "rechunked",
                \* "generated", or "hung" in a loop that does not end
    c_config,   \* chunking_config handed to chunk_transcription
    c_in,       \* transcription_data handed to the chunkers
    c_out,      \* chunks returned by the first call of chunk_transcription
    c_again,    \* chunks returned by the second call
    c_stored,   \* chunks returned by _generate_chunks
    p_pc,       \* position of the executor run: "input", "returned",
                \* "value_error", "mapping", "joined"
    p_chunks,   \* len(chunk_args)
    p_max_workers, \* max_workers of the ThreadPoolExecutor
    p_threads,  \* worker threads the executor has started
    p_submitted,\* work items submitted by executor.map so far
    p_taken,    \* work items taken from the queue by a worker so far
    p_idle,     \* value of the executor's idle semaphore
    p_done      \* work items whose process_chunk has returned

mergeVars == <<m_pc, m_in, m_out, m_again>>

thresholdVars == <<a_pc, a_length, a_threshold, a_adjusted>>

chunkVars == <<c_pc, c_config, c_in, c_out, c_again, c_stored>>

poolVars == <<p_pc, p_chunks, p_max_workers, p_threads, p_submitted, p_taken, p_idle,
              p_done>>

sysVars == <<cfg, self_index, index, stores, pc, reg, cmp, calls, result, tasks>>

vars == <<m_pc, m_in, m_out, m_again,
          cfg, self_index, index, stores, pc, reg, cmp, calls, result, tasks,
          a_pc, a_length, a_threshold, a_adjusted,
          c_pc, c_config, c_in, c_out, c_again, c_stored,
          p_pc, p_chunks, p_max_workers, p_threads, p_submitted, p_taken, p_idle,
          p_done>>

\* The variables of the specifications of the pure functions
pureVars == <<mergeVars, thresholdVars, chunkVars, poolVars>>

(***************************************************************************)
(* Texts.  A text is an optional leading blank (Whisper segment texts      *)
(* start with one) and a sequence of pieces joined by single spaces.  A    *)
(* piece is a run of nwords whitespace-separated tokens, len characters    *)
(* long, whose distinct word tokens are toks (none for a piece made of     *)
(* symbols only), followed by a sentence terminator when term holds.       *)
(***************************************************************************)
Max(a, b) == IF a >= b THEN a ELSE b
Min(a, b) == IF a <= b THEN a ELSE b

Piece(toks, nwords, len, term) ==
    [toks |-> toks, nwords |-> nwords, len |-> len, term |-> term]

Txt(lead, pieces) == [lead |-> lead, pieces |-> pieces]

NoText == Txt(0, <<>>)

RECURSIVE PiecesLen(_)
PiecesLen(ps) ==
    IF ps = <<>> THEN 0
    ELSE Head(ps).len + (IF Head(ps).term THEN 1 ELSE 0)
         + (IF Len(ps) > 1 THEN 1 ELSE 0) + PiecesLen(Tail(ps))

\* len(text)
TextLen(t) == t.lead + PiecesLen(t.pieces)

\* text.strip()
Strip(t) == [t EXCEPT !.lead = 0]

\* not text.strip()
IsBlank(t) == t.pieces = <<>>

\* str.lower() on a token
Lower(w) ==
    CASE w = "The" -> "the"
      [] w = "Fox" -> "fox"
      [] OTHER -> w

\* set(re.findall(r'\b\w+\b', text.lower().strip()))
WordsOf(t) ==
    UNION { { Lower(w) : w \in t.pieces[i].toks } : i \in 1..Len(t.pieces) }

\* len(text.split())
RECURSIVE NumWords(_)
NumWords(ps) ==
    IF ps = <<>> THEN 0 ELSE Head(ps).nwords + NumWords(Tail(ps))

\* "".join of Whisper's segment texts, as Whisper builds result["text"]
RECURSIVE JoinSegmentTexts(_)
JoinSegmentTexts(segs) ==
    IF segs = <<>> THEN <<>>
    ELSE Head(segs).text.pieces \o JoinSegmentTexts(Tail(segs))

(***************************************************************************)
(* config.CHUNKING_CONFIG                                                  *)
(***************************************************************************)
segment_based == TRUE
max_segment_length == 500
max_chunk_size == 1000
overlap_size == 200
min_chunk_size == 50

CHUNKING_CONFIG ==
    [segment_based |-> segment_based, max_segment_length |-> max_segment_length,
     min_chunk_size |-> min_chunk_size, max_chunk_size |-> max_chunk_size,
     overlap_size |-> overlap_size]

(***************************************************************************)
(* ChunkingUtils                                                           *)
(***************************************************************************)
CreateChunkMetadata(text, start_time, end_time, segment_index, chunk_type, chunk_index) ==
    [text |-> text, start_time |-> start_time, end_time |-> end_time,
     segment_index |-> segment_index, chunk_type |-> chunk_type,
     chunk_index |-> chunk_index]

\* re.split(r'[.!?]+', text), blank parts dropped: the pieces up to and
\* including the next terminated piece form one sentence.
RECURSIVE SplitIntoSentences(_, _)
SplitIntoSentences(ps, acc) ==
    IF ps = <<>>
    THEN IF acc = <<>> THEN <<>> ELSE <<Txt(0, acc)>>
    ELSE IF Head(ps).term
         THEN <<Txt(0, Append(acc, [Head(ps) EXCEPT !.term = FALSE]))>>
              \o SplitIntoSentences(Tail(ps), <<>>)
         ELSE SplitIntoSentences(Tail(ps), Append(acc, Head(ps)))

\* The loop of _split_segment over the sentences.  current_time is carried
\* as the number of characters consumed so far, so that sentence k starts at
\* start_time + duration * chars_before / total_chars; the quotient is
\* rounded down to the time unit.
RECURSIVE SplitSegmentLoop(_, _, _, _, _, _, _)
SplitSegmentLoop(sentences, k, chars, start_time, duration, total_chars, segment_index) ==
    IF k > Len(sentences) THEN <<>>
    ELSE LET sentence_chars == TextLen(sentences[k])
             sentence_start == start_time + (duration * chars) \div total_chars
             sentence_end == start_time
                             + (duration * (chars + sentence_chars)) \div total_chars
         IN  <<CreateChunkMetadata(sentences[k], sentence_start, sentence_end,
                                   segment_index, "sentence", k - 1)>>
             \o SplitSegmentLoop(sentences, k + 1, chars + sentence_chars,
                                 start_time, duration, total_chars, segment_index)

SplitSegmentToEndTime(text, start_time, end_time, segment_index) ==
    IF TextLen(text) = 0 THEN <<>>
    ELSE SplitSegmentLoop(SplitIntoSentences(text.pieces, <<>>), 1, 0, start_time,
                          end_time, TextLen(text), segment_index)

\* _split_segment
SplitSegment(text, start_time, end_time, segment_index) ==
    IF TextLen(text) = 0 THEN <<>>
    ELSE SplitSegmentLoop(SplitIntoSentences(text.pieces, <<>>), 1, 0, start_time,
                          end_time - start_time, TextLen(text), segment_index)

RECURSIVE SegmentBasedLoop(_, _, _)
SegmentBasedLoop(segments, i, chunking_config) ==
    IF i > Len(segments) THEN <<>>
    ELSE LET text == Strip(segments[i].text)
         IN  (IF IsBlank(text) THEN <<>>
              ELSE IF TextLen(text) > chunking_config.max_segment_length
                   THEN SplitSegment(text, segments[i].start, segments[i].end, i - 1)
                   ELSE <<CreateChunkMetadata(text, segments[i].start, segments[i].end,
                                              i - 1, "segment", 0)>>)
             \o SegmentBasedLoop(segments, i + 1, chunking_config)

SegmentBasedChunking(transcription_data, chunking_config) ==
    SegmentBasedLoop(transcription_data.segments, 1, chunking_config)

\* The sliding word window shared by _text_based_chunking and
\* _split_long_segment: the windows <<current_pos, end_pos>> of the chunks
\* appended so far, and whether the loop diverges, which it does when it
\* comes back to a position it has already left (the same iteration then
\* repeats for ever, appending a chunk each time).
RECURSIVE WordWindows(_, _, _, _, _, _)
WordWindows(current_pos, total_words, chunk_size, overlap, seen, windows) ==
    IF ~(current_pos < total_words)
    THEN [diverges |-> FALSE, windows |-> windows]
    ELSE IF current_pos \in seen
    THEN [diverges |-> TRUE, windows |-> windows]
    ELSE LET end_pos == Min(current_pos + chunk_size, total_words)
             next_pos == end_pos - overlap
         IN  IF next_pos >= total_words
             THEN [diverges |-> FALSE,
                   windows |-> Append(windows, <<current_pos, end_pos>>)]
             ELSE WordWindows(next_pos, total_words, chunk_size, overlap,
                              seen \cup {current_pos},
                              Append(windows, <<current_pos, end_pos>>))

\* _text_based_chunking.  The texts of the model have at most
\* max_chunk_size words, so a window that the loop completes holds all the
\* words of the text.
TextBasedChunking(transcription_data, chunking_config) ==
    LET text == transcription_data.text
        total_words == NumWords(text.pieces)
        w == WordWindows(0, total_words, chunking_config.max_chunk_size,
                         chunking_config.overlap_size, {}, <<>>)
    IN  IF TextLen(text) = 0 \/ total_words = 0
        THEN [diverges |-> FALSE, chunks |-> <<>>]
        ELSE [diverges |-> w.diverges,
              chunks |-> [k \in 1..Len(w.windows) |->
                            CreateChunkMetadata(Strip(text), 0, 0, 0, "text_chunk", k - 1)]]

\* chunk_transcription
ChunkTranscription(transcription_data, chunking_config) ==
    LET chunks == IF chunking_config.segment_based
                  THEN SegmentBasedChunking(transcription_data, chunking_config)
                  ELSE <<>>
    IN  IF chunks # <<>> THEN [diverges |-> FALSE, chunks |-> chunks]
        ELSE TextBasedChunking(transcription_data, chunking_config)

\* _chunk_secondary_text
ChunkSecondaryText(secondary_transcription) ==
    ChunkTranscription(secondary_transcription, CHUNKING_CONFIG)

(***************************************************************************)
(* _merge_overlapping_matches                                              *)
(***************************************************************************)
overlap_tolerance == 1

\* sorted(matches, key=start_time): insertion of one element behind every
\* element whose key is not larger (Python's sort is stable).
RECURSIVE InsertByStart(_, _)
InsertByStart(m, s) ==
    IF s = <<>> THEN <<m>>
    ELSE IF m.start_time < Head(s).start_time THEN <<m>> \o s
    ELSE <<Head(s)>> \o InsertByStart(m, Tail(s))

RECURSIVE SortByStart(_)
SortByStart(s) ==
    IF s = <<>> THEN <<>>
    ELSE InsertByStart(s[Len(s)], SortByStart(SubSeq(s, 1, Len(s) - 1)))

HasOverlapNoTolerance(current, match) ==
    match.start_time < current.end_time

HasOverlapInclusive(current, match) ==
    match.start_time <= current.end_time + overlap_tolerance

HasOverlap(current, match) ==
    match.start_time < current.end_time + overlap_tolerance

MergeIntoLatestConfidence(current, match) ==
    [current EXCEPT !.end_time = Max(current.end_time, match.end_time),
                    !.confidence = match.confidence]

MergeInto(current, match) ==
    [current EXCEPT !.end_time = Max(current.end_time, match.end_time),
                    !.confidence = Max(current.confidence, match.confidence)]

\* The loop over sorted_matches[1:], with the accumulators merged and
\* current_match; the last current_match is appended after the loop.
RECURSIVE MergeLoop(_, _, _)
MergeLoop(rest, current, merged) ==
    IF rest = <<>> THEN Append(merged, current)
    ELSE IF HasOverlap(current, Head(rest))
         THEN MergeLoop(Tail(rest), MergeInto(current, Head(rest)), merged)
         ELSE MergeLoop(Tail(rest), Head(rest), Append(merged, current))

MergeOverlappingMatches(matches) ==
    IF matches = <<>> THEN <<>>
    ELSE LET sorted_matches == SortByStart(matches)
         IN  MergeLoop(Tail(sorted_matches), Head(sorted_matches), <<>>)

(***************************************************************************)
(* PineconeVectorStore: configuration, clearing and storing.               *)
(***************************************************************************)
\* validate_configuration
ValidateConfiguration ==
    /\ cfg.pinecone_key
    /\ cfg.openai_key
    /\ cfg.client

\* Result objects of the handlers.  Fields a result does not carry in the
\* code hold their defaults here.
Failure(op, error) ==
    [op |-> op, success |-> FALSE, error |-> error, chunks_stored |-> 0,
     matches |-> <<>>, total_confidence |-> 0, num_matches |-> 0,
     adjusted_threshold |-> 0, processing_mode |-> "", uncaught |-> FALSE]

StoreSuccess(op, chunks_stored) ==
    [op |-> op, success |-> TRUE, error |-> "", chunks_stored |-> chunks_stored,
     matches |-> <<>>, total_confidence |-> 0, num_matches |-> 0,
     adjusted_threshold |-> 0, processing_mode |-> "", uncaught |-> FALSE]

\* confidence is total_confidence / num_matches (0.0 without matches); the
\* quotient is kept as its two terms.
SearchSuccess(op, merged, total_confidence, num_matches, adjusted, mode) ==
    [op |-> op, success |-> TRUE, error |-> "", chunks_stored |-> 0,
     matches |-> merged, total_confidence |-> total_confidence,
     num_matches |-> num_matches, adjusted_threshold |-> adjusted,
     processing_mode |-> mode, uncaught |-> FALSE]

\* What the caller of a VectorHandler method gets when an exception leaves
\* the method: no result object, the exception itself.
Uncaught(op) == [Failure(op, "") EXCEPT !.uncaught = TRUE]

CatchesAllButQuery(site) ==
    site \in {"list_indexes", "delete_all", "embed", "upsert", "fetch"}

\* The external calls made inside a try block whose except clause handles
\* Exception, in the function that makes the call or in one of its callers
\* up to the VectorHandler method.
Catches(site) ==
    site \in {"list_indexes", "delete_all", "embed", "upsert", "fetch", "query"}

\* get_embeddings_batch(texts) for n texts: for each text, whether the list
\* returned holds an embedding (TRUE) or None.  The provider answers with
\* one embedding per text, or with a response whose first embedding is
\* missing, or the call raises and the function returns [None] * n.
GetEmbeddingsBatch(n, outcome) ==
    [k \in 1..n |-> CASE outcome = "ok" -> TRUE
                      [] outcome = "first_null" -> k # 1
                      [] OTHER -> FALSE]

NoResult == Failure("none", "")

\* No transcript: no handler has been given one.
NoTranscript == [success |-> FALSE, text |-> NoText, segments |-> <<>>,
                 absent |-> TRUE]

\* writing holds from the delete_all of a registration to the completion of
\* its last upsert.
NoReg == [kind |-> "none", call |-> 0, transcript |-> NoTranscript, vectors |-> <<>>,
          attempt |-> 0, ready |-> FALSE, ok |-> FALSE, writing |-> FALSE]

\* _create_chunk: the chunk with the metadata that is stored.  uuid4 ids are
\* modelled as <<number of the store call, position in the call>>.
CreateChunk(text, start_time, end_time, segment_index, chunk_type, chunk_index) ==
    [text |-> text, start_time |-> start_time, end_time |-> end_time,
     segment_index |-> segment_index, chunk_type |-> chunk_type,
     chunk_index |-> chunk_index]

\* _split_long_segment.  A window that the loop completes holds all the
\* words of the segment (the texts of the model have at most max_chunk_size
\* words); chunk times are rounded down to the time unit.
SplitLongSegment(text, start_time, end_time, segment_index) ==
    LET total_words == NumWords(text.pieces)
        duration == end_time - start_time
        w == WordWindows(0, total_words, max_chunk_size, overlap_size, {}, <<>>)
        At(pos) == IF duration > 0
                   THEN start_time + (pos * duration) \div total_words
                   ELSE start_time + pos
    IN  [diverges |-> w.diverges,
         chunks |-> [k \in 1..Len(w.windows) |->
                       CreateChunk(text, At(w.windows[k][1]), At(w.windows[k][2]),
                                   segment_index, "text_chunk", k - 1)]]

\* _generate_chunks
RECURSIVE GenerateChunksLoop(_, _)
GenerateChunksLoop(segments, i) ==
    IF i > Len(segments) THEN [diverges |-> FALSE, chunks |-> <<>>]
    ELSE LET text == Strip(segments[i].text)
             here == IF IsBlank(text)
                     THEN [diverges |-> FALSE, chunks |-> <<>>]
                     ELSE IF TextLen(text) > max_segment_length
                     THEN SplitLongSegment(text, segments[i].start, segments[i].end, i - 1)
                     ELSE [diverges |-> FALSE,
                           chunks |-> <<CreateChunk(text, segments[i].start,
                                                    segments[i].end, i - 1, "segment", 0)>>]
             rest == GenerateChunksLoop(segments, i + 1)
         IN  IF here.diverges THEN here
             ELSE [diverges |-> rest.diverges, chunks |-> here.chunks \o rest.chunks]

GenerateChunks(transcription_data) ==
    GenerateChunksLoop(transcription_data.segments, 1)

\* The vector records built from the chunks of store call number call.
VectorRecords(chunks, call) ==
    [k \in 1..Len(chunks) |-> [id |-> <<call, k>>, metadata |-> chunks[k]]]

SeqRange(s) == { s[i] : i \in 1..Len(s) }

(***************************************************************************)
(* Inputs of the handlers: a pool of transcription results.                *)
(***************************************************************************)
MaxStores == 2

T_fox == Txt(0, <<Piece({"the", "quick", "brown", "fox"}, 4, 19, FALSE)>>)
T_dog == Txt(1, <<Piece({"jumps", "over", "the", "lazy", "dog"}, 5, 23, FALSE)>>)
T_FoxCaps == Txt(1, <<Piece({"The", "quick", "brown", "Fox"}, 4, 19, TRUE)>>)
T_cat == Txt(0, <<Piece({"a", "cat"}, 2, 5, FALSE)>>)
T_medium == Txt(1, <<Piece({"the", "quick", "a", "cat"}, 60, 300, FALSE)>>)
T_symbols == Txt(0, <<Piece({}, 1, 3, FALSE)>>)
T_blank == Txt(1, <<>>)
T_two_sentences == Txt(0, <<Piece({"the", "quick"}, 60, 300, TRUE),
                            Piece({"lazy", "dog", "cat"}, 60, 300, FALSE)>>)
T_one_sentence == Txt(0, <<Piece({"the", "quick", "brown", "fox", "jumps",
                                  "over", "and", "lazy", "dog", "runs"}, 120, 600, FALSE)>>)

Seg(start, end, text) == [start |-> start, end |-> end, text |-> text]

\* A transcription result as the transcriber returns it: text is the
\* concatenation of the segment texts.
Whisper(segments) ==
    [success |-> TRUE, text |-> Txt(1, JoinSegmentTexts(segments)),
     segments |-> segments]

TR_foxdog == Whisper(<<Seg(0, 300, T_fox), Seg(300, 600, T_dog)>>)
TR_fox == Whisper(<<Seg(0, 200, T_fox)>>)
TR_cat == Whisper(<<Seg(0, 100, T_cat)>>)
TR_mixed == Whisper(<<Seg(0, 200, T_FoxCaps), Seg(200, 900, T_medium)>>)
TR_two_sentences == Whisper(<<Seg(0, 6000, T_two_sentences)>>)
TR_one_sentence == Whisper(<<Seg(0, 6000, T_one_sentence)>>)
TR_symbols == Whisper(<<Seg(0, 100, T_symbols)>>)
TR_blank == Whisper(<<Seg(0, 100, T_blank)>>)
TR_cat_blank == Whisper(<<Seg(0, 100, T_cat), Seg(100, 200, T_blank)>>)
TR_text_only == [success |-> TRUE, text |-> T_fox, segments |-> <<>>]
TR_failed == [success |-> FALSE, text |-> NoText, segments |-> <<>>]

\* Transcripts registered as reference by /store-primary
StoreTranscripts ==
    {TR_foxdog, TR_cat, TR_cat_blank, TR_two_sentences, TR_blank, TR_text_only,
     TR_failed}

\* Transcripts stored by /transcribe
TranscribeTranscripts ==
    {TR_cat, TR_two_sentences, TR_failed}

(***************************************************************************)
(* Storage handlers.  The handlers are coroutines without an await inside, *)
(* so the event loop runs one handler at a time from start to return; pc   *)
(* is the position of that handler.                                        *)
(***************************************************************************)
max_retries == 10
batch_size == 100

ClearOutcomes == {"ok", "list_raises", "delete_raises"}
StoreOutcomes == {"ok", "list_raises", "embed_raises", "upsert_raises"}
FetchOutcomes == {"found", "absent", "raises"}

StoreOp(kind) == IF kind = "primary" THEN "store_primary" ELSE "store_chunks"

StoreFailed(kind) ==
    IF kind = "primary" THEN "Failed to store primary content in Pinecone"
    ELSE "Failed to store chunks in Pinecone"

\* What is kept of a storage handler once it has returned.
Returned(r, ok, ready) ==
    [NoReg EXCEPT !.kind = r.kind, !.call = r.call, !.transcript = r.transcript,
                  !.ok = ok, !.ready = ready]

LoopFreeWhileStoring == pc \in {"idle", "store"}

\* The handlers are coroutines of the one event loop of the one server
\* process, and none of them awaits anything that suspends it between its
\* first and its last external call: the loop takes the next request or
\* task when the running handler has returned.
LoopFree == pc = "idle"

\* POST /store-primary: the route transcribes the file, returns at once when
\* the transcription failed, and otherwise hands the transcription to a
\* background task (asyncio.create_task) and returns "Storage in progress".
\* Nothing reads the transcription a task carries before the task starts, so
\* the tasks that wait are counted and the transcription of a task is drawn
\* when it starts.
StorePrimaryRoute(t) ==
    /\ LoopFree
    /\ t.success
    /\ stores + tasks < MaxStores
    /\ tasks' = tasks + 1
    /\ UNCHANGED <<cfg, self_index, index, stores, pc, reg, cmp, calls, result>>

StoresAfterFailedClear(clear_success) == TRUE

\* "if not clear_success: return {success: False, ...}"
StoresAfterClear(clear_success) == clear_success

\* The background task _store_primary_content_background, first in the
\* loop's queue: VectorHandler.store_primary_content up to and including
\* clear_existing_embeddings.
StorePrimaryContent(t, outcome) ==
    LET valid == t.success /\ t.segments # <<>>
        listed == valid /\ ValidateConfiguration
        found == listed /\ outcome # "list_raises" /\ cfg.index_exists
        clear_success == found /\ outcome # "delete_raises"
        cleared == valid /\ StoresAfterClear(clear_success)
        escaped == \/ listed /\ outcome = "list_raises" /\ ~Catches("list_indexes")
                   \/ found /\ outcome = "delete_raises" /\ ~Catches("delete_all")
    IN  /\ LoopFree
        /\ tasks > 0
        /\ t.success
        /\ tasks' = tasks - 1
        /\ calls' = (IF listed THEN <<"list_indexes">> ELSE <<>>)
                    \o (IF found THEN <<"delete_all">> ELSE <<>>)
        /\ self_index' = (self_index \/ found)
        /\ index' = IF clear_success THEN {} ELSE index
        /\ IF escaped
           THEN /\ pc' = "returned"
                /\ reg' = [NoReg EXCEPT !.kind = "primary"]
                /\ result' = Uncaught("store_primary")
           ELSE IF cleared
           THEN /\ pc' = "store"
                /\ reg' = [NoReg EXCEPT !.kind = "primary", !.transcript = t,
                                        !.writing = clear_success]
                /\ result' = NoResult
           ELSE /\ pc' = "returned"
                /\ reg' = [NoReg EXCEPT !.kind = "primary"]
                /\ result' = Failure("store_primary",
                       IF ~t.success THEN "No successful transcription data to store"
                       ELSE IF t.segments = <<>>
                       THEN "No segments found in transcription data"
                       ELSE "Failed to clear existing embeddings")
        /\ UNCHANGED <<cfg, stores, cmp>>

\* VectorHandler.store_transcription_chunks, as /transcribe calls it, up to
\* the call of the vector store.
StoreTranscriptionChunks(t) ==
    LET valid == t.success /\ t.segments # <<>>
    IN  /\ LoopFree
        /\ stores + tasks < MaxStores
        /\ calls' = <<>>
        /\ IF valid
           THEN /\ pc' = "store"
                /\ reg' = [NoReg EXCEPT !.kind = "transcribe", !.transcript = t]
                /\ result' = NoResult
           ELSE /\ pc' = "returned"
                /\ reg' = [NoReg EXCEPT !.kind = "transcribe"]
                /\ result' = Failure("store_chunks",
                       IF ~t.success THEN "No successful transcription data to store"
                       ELSE "No segments found in transcription data")
        /\ UNCHANGED <<cfg, self_index, index, stores, cmp, tasks>>

\* PineconeVectorStore.store_transcription_chunks up to the upserts.  The
\* vectors of a call fit one batch of batch_size.
StoreChunks(outcome) ==
    LET t == reg.transcript
        listed == ValidateConfiguration
        found == listed /\ outcome # "list_raises" /\ cfg.index_exists
        g == GenerateChunks(t)
        generated == found /\ ~g.diverges /\ g.chunks # <<>>
        embeddings == IF generated
                      THEN GetEmbeddingsBatch(Len(g.chunks), outcome)
                      ELSE [k \in 1..Len(g.chunks) |-> FALSE]
        records == VectorRecords(g.chunks, stores + 1)
        vectors_to_upsert ==
            SelectSeq(records, LAMBDA v : embeddings[v.id[2]])
        upserting == generated /\ vectors_to_upsert # <<>>
        upserted == upserting /\ outcome # "upsert_raises"
        escaped == \/ listed /\ outcome = "list_raises" /\ ~Catches("list_indexes")
                   \/ generated /\ outcome = "embed_raises" /\ ~Catches("embed")
                   \/ upserting /\ outcome = "upsert_raises" /\ ~Catches("upsert")
    IN  /\ pc = "store"
        /\ Len(vectors_to_upsert) <= batch_size
        /\ calls' = calls \o (IF listed THEN <<"list_indexes">> ELSE <<>>)
                          \o (IF generated THEN <<"embed">> ELSE <<>>)
                          \o (IF upserting THEN <<"upsert">> ELSE <<>>)
        /\ self_index' = (self_index \/ found)
        /\ stores' = IF found THEN stores + 1 ELSE stores
        /\ index' = IF upserted
                    THEN index \cup { [id |-> v.id, metadata |-> v.metadata] :
                                      v \in SeqRange(vectors_to_upsert) }
                    ELSE index
        /\ IF found /\ g.diverges
           THEN /\ pc' = "hung"
                /\ reg' = [reg EXCEPT !.call = stores + 1]
                /\ result' = result
           ELSE IF upserted
           THEN /\ pc' = "wait"
                /\ reg' = [reg EXCEPT !.call = stores + 1,
                                      !.vectors = vectors_to_upsert,
                                      !.writing = FALSE]
                /\ result' = result
           ELSE /\ pc' = "returned"
                /\ reg' = Returned([reg EXCEPT !.call = IF found THEN stores + 1 ELSE 0],
                                   FALSE, FALSE)
                /\ result' = IF escaped THEN Uncaught(StoreOp(reg.kind))
                             ELSE Failure(StoreOp(reg.kind), StoreFailed(reg.kind))
        /\ UNCHANGED <<cfg, cmp, tasks>>

ExhaustedOffByOne(attempt) == attempt >= max_retries

\* "for attempt in range(max_retries)": attempt is the last iteration
Exhausted(attempt) == attempt + 1 >= max_retries

StoredOnlyIfReady(ready) == ready

\* store_transcription_chunks returns True after the upserts, whatever
\* _wait_for_indexing returned.
StoredAfterProbe(ready) == TRUE

\* One iteration of the loop of _wait_for_indexing(first_id, max_retries=10),
\* and, when the loop ends, the return of the handler.
WaitForIndexing(outcome) ==
    LET found == outcome = "found"
        exhausted == ~found /\ Exhausted(reg.attempt)
        escaped == outcome = "raises" /\ ~Catches("fetch")
    IN  /\ pc = "wait"
        /\ calls' = Append(calls, "fetch")
        /\ IF escaped
           THEN /\ pc' = "returned"
                /\ reg' = Returned(reg, FALSE, FALSE)
                /\ result' = Uncaught(StoreOp(reg.kind))
           ELSE IF found \/ exhausted
           THEN /\ pc' = "returned"
                /\ reg' = Returned(reg, StoredAfterProbe(found), found)
                /\ result' = IF StoredAfterProbe(found)
                             THEN StoreSuccess(StoreOp(reg.kind),
                                               Len(reg.transcript.segments))
                             ELSE Failure(StoreOp(reg.kind), StoreFailed(reg.kind))
           ELSE /\ pc' = "wait"
                /\ reg' = [reg EXCEPT !.attempt = reg.attempt + 1]
                /\ result' = result
        /\ UNCHANGED <<cfg, self_index, index, stores, cmp, tasks>>

(***************************************************************************)
(* Comparison: search_content_matches and search_content_matches_optimized *)
(***************************************************************************)
top_k == 10

Scores == {30, 50, 100}
Thresholds == {70}

CompareTranscripts ==
    {TR_fox, TR_cat, TR_mixed, TR_one_sentence, TR_symbols, TR_blank,
     TR_text_only, TR_failed}

\* batch_embeddings tells which chunks have an embedding; order lists the
\* chunks in the order their processing completed; during_registration
\* tells whether a query was issued while a registration was writing.
NoCmp == [entry |-> "none", mode |-> "none", transcript |-> NoTranscript, threshold |-> 0,
          adjusted_threshold |-> 0, chunk_texts |-> <<>>, batch_embeddings |-> <<>>,
          done |-> {}, order |-> <<>>, raised |-> FALSE, during_registration |-> FALSE,
          chunk_results |-> <<>>, last_chunk |-> 0,
          query_matches |-> <<>>, all_matches |-> <<>>]

SearchOp(entry) ==
    IF entry = "optimized" THEN "search_optimized" ELSE "search"

AdjustedThresholdInclusive(secondary_length, threshold) ==
    IF secondary_length <= 100 THEN 50
    ELSE IF secondary_length >= 500 THEN 30
    ELSE threshold

AdjustedThresholdShort(secondary_length, threshold) ==
    IF secondary_length > 500 THEN 30 ELSE 50

\* "Dynamic threshold based on content length"
AdjustedThreshold(secondary_length, threshold) ==
    IF secondary_length < 100 THEN 50
    ELSE IF secondary_length > 500 THEN 30
    ELSE threshold

MinOverlapRatioFlat(secondary_length) == 50

\* min_overlap_ratio of _check_content_overlap
MinOverlapRatio(secondary_length) ==
    IF secondary_length < 100 THEN 70
    ELSE IF secondary_length > 500 THEN 30
    ELSE 50

CheckContentOverlapAnyWord(secondary_text, primary_text) ==
    WordsOf(secondary_text) # {}

CheckContentOverlapAnyShared(secondary_text, primary_text) ==
    WordsOf(secondary_text) \cap WordsOf(primary_text) # {}

\* _check_content_overlap
CheckContentOverlap(secondary_text, primary_text) ==
    LET secondary_words == WordsOf(secondary_text)
        primary_words == WordsOf(primary_text)
        overlap_words == secondary_words \cap primary_words
    IN  IF secondary_words = {} THEN FALSE
        ELSE Cardinality(overlap_words) * 100
               >= MinOverlapRatio(TextLen(secondary_text)) * Cardinality(secondary_words)

\* Order of the ids of the records, used to break ties between equal scores.
IdLess(a, b) == a[1] < b[1] \/ (a[1] = b[1] /\ a[2] < b[2])

\* index.query(vector, top_k=10, include_metadata=True): the records of the
\* index by descending score, at most top_k of them.  The score of a record
\* is the similarity the index computes; sc gives it.
RECURSIVE ByDescendingScore(_, _)
ByDescendingScore(records, sc) ==
    IF records = {} THEN <<>>
    ELSE LET best == CHOOSE r \in records :
                        \A o \in records :
                            \/ sc[r.id] > sc[o.id]
                            \/ sc[r.id] = sc[o.id] /\ (r = o \/ IdLess(r.id, o.id))
         IN  <<[id |-> best.id, score |-> sc[best.id], metadata |-> best.metadata]>>
             \o ByDescendingScore(records \ {best}, sc)

Query(records, sc) ==
    LET all == ByDescendingScore(records, sc)
    IN  SubSeq(all, 1, Min(top_k, Len(all)))

\* The filter of _search_with_embedding
AboveThreshold(query_matches, adjusted_threshold) ==
    SelectSeq(query_matches, LAMBDA m : m.score >= adjusted_threshold)

\* The match candidate built from a query match.  id is not a field of the
\* candidate in the code; it is kept to tell which stored record a candidate
\* was drawn from, and nothing reads it.
Candidate(m) ==
    [start_time |-> m.metadata.start_time, end_time |-> m.metadata.end_time,
     text |-> m.metadata.text, confidence |-> m.score,
     segment_index |-> m.metadata.segment_index, id |-> m.id]

\* The body of the loop over the chunks (process_chunk in the parallel path)
ProcessChunk(chunk_text, chunk_matches) ==
    LET accepted == SelectSeq(chunk_matches,
                        LAMBDA m : CheckContentOverlap(chunk_text, m.metadata.text))
    IN  [k \in 1..Len(accepted) |-> Candidate(accepted[k])]

RECURSIVE Concat(_, _)
Concat(f, k) == IF k > Len(f) THEN <<>> ELSE f[k] \o Concat(f, k + 1)

RECURSIVE SumConfidence(_)
SumConfidence(ms) ==
    IF ms = <<>> THEN 0 ELSE Head(ms).confidence + SumConfidence(Tail(ms))

EmbedOutcomes == {"ok", "embed_raises", "first_null"}
QueryOutcomes == {"ok", "list_raises", "query_raises"}

AnyEmbeddingMissing(batch_embeddings) ==
    \/ batch_embeddings = <<>>
    \/ \E k \in 1..Len(batch_embeddings) : ~batch_embeddings[k]

\* "if not batch_embeddings or all(emb is None for emb in batch_embeddings)"
NoUsableEmbeddings(batch_embeddings) ==
    \/ batch_embeddings = <<>>
    \/ \A k \in 1..Len(batch_embeddings) : ~batch_embeddings[k]

\* The common beginning of both search functions, up to the check of the
\* batch embeddings.  entry is the function the handler called; fallback
\* holds when search_content_matches runs as the fallback of the optimized
\* function.
SearchFront(entry, fallback, t, threshold, outcome) ==
    LET op == SearchOp(entry)
        secondary_text == Strip(t.text)
        has_text == ValidateConfiguration /\ ~IsBlank(secondary_text)
        c == IF has_text THEN ChunkSecondaryText(t)
             ELSE [diverges |-> FALSE, chunks |-> <<>>]
        valid_chunks == SelectSeq(c.chunks, LAMBDA ch : ~IsBlank(Strip(ch.text)))
        chunk_texts == [k \in 1..Len(valid_chunks) |-> Strip(valid_chunks[k].text)]
        embedding == has_text /\ ~c.diverges /\ chunk_texts # <<>>
        batch_embeddings == IF embedding
                            THEN GetEmbeddingsBatch(Len(chunk_texts), outcome)
                            ELSE <<>>
        embedded == embedding /\ ~NoUsableEmbeddings(batch_embeddings)
        escaped == embedding /\ outcome = "embed_raises" /\ ~Catches("embed")
        parallel == entry = "optimized" /\ ~fallback /\ self_index
        started == [NoCmp EXCEPT !.entry = entry, !.transcript = t,
                                 !.threshold = threshold,
                                 !.batch_embeddings = batch_embeddings]
    IN  /\ calls' = (IF fallback THEN calls ELSE <<>>)
                    \o (IF embedding THEN <<"embed">> ELSE <<>>)
        /\ reg' = reg
        /\ IF has_text /\ c.diverges
           THEN /\ pc' = "hung"
                /\ cmp' = started
                /\ result' = NoResult
           ELSE IF escaped
           THEN /\ pc' = "returned"
                /\ cmp' = started
                /\ result' = Uncaught(op)
           ELSE IF embedded
           THEN /\ pc' = IF entry = "optimized" /\ ~fallback /\ ~self_index
                         THEN "fallback" ELSE "query"
                /\ cmp' = [started EXCEPT
                             !.mode = IF parallel THEN "parallel" ELSE "sequential",
                             !.adjusted_threshold =
                                 AdjustedThreshold(TextLen(secondary_text), threshold),
                             !.chunk_texts = chunk_texts,
                             !.chunk_results = [k \in 1..Len(chunk_texts) |-> <<>>]]
                /\ result' = NoResult
           ELSE /\ pc' = "returned"
                /\ cmp' = started
                /\ result' = Failure(op,
                       IF ~ValidateConfiguration THEN "Configuration validation failed"
                       ELSE IF IsBlank(secondary_text)
                       THEN "No text found in secondary transcription"
                       ELSE IF chunk_texts = <<>> THEN "No valid chunk texts found"
                       ELSE "Failed to generate batch embeddings")

\* VectorHandler.search_content_matches / search_content_matches_optimized
SearchContentMatches(entry, t, threshold, outcome) ==
    /\ LoopFree
    /\ IF ~t.success
       THEN /\ pc' = "returned"
            /\ calls' = <<>>
            /\ cmp' = [NoCmp EXCEPT !.entry = entry, !.transcript = t,
                                    !.threshold = threshold]
            /\ result' = Failure(SearchOp(entry),
                                 "No successful secondary transcription data")
            /\ reg' = reg
       ELSE SearchFront(entry, FALSE, t, threshold, outcome)
    /\ UNCHANGED <<cfg, self_index, index, stores, tasks>>

\* "Falling back to sequential processing": search_content_matches called
\* by search_content_matches_optimized with the same arguments.
Fallback(outcome) ==
    /\ pc = "fallback"
    /\ SearchFront(cmp.entry, TRUE, cmp.transcript, cmp.threshold, outcome)
    /\ UNCHANGED <<cfg, self_index, index, stores, tasks>>

Pending == (1..Len(cmp.chunk_texts)) \ cmp.done

\* The scores of a query that does not answer
NoScores == [id \in { r.id : r \in index } |-> 0]

ExecutorAsCompleted(chunk_results, order) ==
    [k \in 1..Len(order) |-> chunk_results[order[k]]]

\* list(executor.map(process_chunk, chunk_args)): the results of the
\* workers in the order of chunk_args, whatever the order of completion.
ExecutorMap(chunk_results, order) == chunk_results

\* One chunk: _search_with_embedding, the lexical gate, and, after the last
\* chunk, the merge and the return of the handler.  A chunk without an
\* embedding is skipped without a query.  The sequential loop takes the
\* chunks in order and appends to all_matches as it goes; the workers of
\* the parallel path take them in any order and the handler extends
\* all_matches from the results of executor.map.
QueryChunk(i, outcome, sc) ==
    LET has_embedding == cmp.batch_embeddings[i]
        raises == /\ has_embedding
                  /\ \/ outcome = "list_raises"
                     \/ outcome = "query_raises" /\ cfg.index_exists
        escaped == \/ has_embedding /\ outcome = "list_raises" /\ ~Catches("list_indexes")
                   \/ raises /\ outcome = "query_raises" /\ ~Catches("query")
        listed == has_embedding /\ outcome # "list_raises" /\ cfg.index_exists
        queried == has_embedding /\ ~raises /\ cfg.index_exists
        query_matches == IF queried THEN Query(index, sc) ELSE <<>>
        chunk_matches == AboveThreshold(query_matches, cmp.adjusted_threshold)
        chunk_result == ProcessChunk(cmp.chunk_texts[i], chunk_matches)
        chunk_results == [cmp.chunk_results EXCEPT ![i] = chunk_result]
        done == cmp.done \cup {i}
        order == Append(cmp.order, i)
        last == done = 1..Len(cmp.chunk_texts)
        raised == cmp.raised \/ raises
        all_matches == IF cmp.mode = "parallel"
                       THEN IF last THEN Concat(ExecutorMap(chunk_results, order), 1)
                            ELSE <<>>
                       ELSE cmp.all_matches \o chunk_result
        stepped == [cmp EXCEPT !.done = done, !.order = order, !.raised = raised,
                               !.during_registration =
                                   cmp.during_registration \/ (listed /\ reg.writing),
                               !.chunk_results = chunk_results,
                               !.last_chunk = i,
                               !.query_matches = query_matches]
    IN  /\ pc = "query"
        /\ i \in Pending
        /\ cmp.mode = "sequential" => \A j \in Pending : i <= j
        /\ has_embedding \/ outcome = "ok"
        /\ IF queried THEN sc \in [{ r.id : r \in index } -> Scores]
                      ELSE sc = NoScores
        /\ calls' = calls \o (IF has_embedding THEN <<"list_indexes">> ELSE <<>>)
                          \o (IF listed THEN <<"query">> ELSE <<>>)
        /\ self_index' = (self_index \/ listed)
        /\ IF escaped
           THEN /\ pc' = "returned"
                /\ cmp' = stepped
                /\ result' = Uncaught(SearchOp(cmp.entry))
           ELSE IF raises /\ cmp.mode = "sequential"
           THEN /\ pc' = "returned"
                /\ cmp' = stepped
                /\ result' = Failure(SearchOp(cmp.entry), "Content search failed")
           ELSE IF ~last
           THEN /\ pc' = "query"
                /\ cmp' = [stepped EXCEPT !.all_matches = all_matches]
                /\ result' = result
           ELSE IF raised
           THEN /\ pc' = "fallback"
                /\ cmp' = stepped
                /\ result' = result
           ELSE /\ pc' = "returned"
                /\ cmp' = [stepped EXCEPT !.all_matches = all_matches]
                /\ result' = SearchSuccess(SearchOp(cmp.entry),
                                 MergeOverlappingMatches(all_matches),
                                 SumConfidence(all_matches), Len(all_matches),
                                 cmp.adjusted_threshold,
                                 IF cmp.mode = "parallel" THEN "parallel_optimized" ELSE "")
        /\ UNCHANGED <<cfg, index, stores, reg, tasks>>

(***************************************************************************)
(* The service: configuration is read at construction; then the handlers   *)
(* run one after the other.                                                *)
(***************************************************************************)
\* The configuration is complete, or lacks one of its parts: the Pinecone
\* key (and then the client), the OpenAI key, the client (its construction
\* failed), or the index named by PINECONE_INDEX_NAME.
Configurations ==
    LET complete == [pinecone_key |-> TRUE, openai_key |-> TRUE, client |-> TRUE,
                     index_exists |-> TRUE]
    IN  { complete,
          [complete EXCEPT !.pinecone_key = FALSE, !.client = FALSE],
          [complete EXCEPT !.openai_key = FALSE],
          [complete EXCEPT !.client = FALSE],
          [complete EXCEPT !.index_exists = FALSE] }

IdleMerge ==
    /\ m_pc = "off"
    /\ m_in = <<>>
    /\ m_out = <<>>
    /\ m_again = <<>>

IdleThreshold ==
    /\ a_pc = "off"
    /\ a_length = 0
    /\ a_threshold = 0
    /\ a_adjusted = 0

IdleChunk ==
    /\ c_pc = "off"
    /\ c_config = CHUNKING_CONFIG
    /\ c_in = NoTranscript
    /\ c_out = <<>>
    /\ c_again = <<>>
    /\ c_stored = <<>>

IdlePool ==
    /\ p_pc = "off"
    /\ p_chunks = 0
    /\ p_max_workers = 0
    /\ p_threads = 0
    /\ p_submitted = 0
    /\ p_taken = 0
    /\ p_idle = 0
    /\ p_done = {}

Init ==
    /\ IdleMerge
    /\ IdleThreshold
    /\ IdleChunk
    /\ IdlePool
    /\ cfg \in Configurations
    /\ self_index = FALSE
    /\ index = {}
    /\ stores = 0
    /\ pc = "idle"
    /\ reg = NoReg
    /\ cmp = NoCmp
    /\ calls = <<>>
    /\ result = NoResult
    /\ tasks = 0

\* The handler has returned: its result goes to the caller and its locals
\* are gone; the event loop takes the next request.
Respond ==
    /\ pc = "returned"
    /\ pc' = "idle"
    /\ cmp' = NoCmp
    /\ calls' = <<>>
    /\ result' = NoResult
    /\ UNCHANGED <<cfg, self_index, index, stores, reg, tasks>>

Next ==
    \/ Respond /\ UNCHANGED pureVars
    \/ \E t \in StoreTranscripts :
          StorePrimaryRoute(t) /\ UNCHANGED pureVars
    \/ \E t \in StoreTranscripts, o \in ClearOutcomes :
          StorePrimaryContent(t, o) /\ UNCHANGED pureVars
    \/ \E t \in TranscribeTranscripts :
          StoreTranscriptionChunks(t) /\ UNCHANGED pureVars
    \/ \E o \in StoreOutcomes : StoreChunks(o) /\ UNCHANGED pureVars
    \/ \E o \in FetchOutcomes : WaitForIndexing(o) /\ UNCHANGED pureVars
    \/ \E e \in {"sequential", "optimized"}, t \in CompareTranscripts,
          th \in Thresholds, o \in EmbedOutcomes :
          SearchContentMatches(e, t, th, o) /\ UNCHANGED pureVars
    \/ \E o \in EmbedOutcomes : Fallback(o) /\ UNCHANGED pureVars
    \/ \E i \in Pending, sc \in [{ r.id : r \in index } -> Scores] :
          QueryChunk(i, "ok", sc) /\ UNCHANGED pureVars
    \/ \E i \in Pending, o \in QueryOutcomes :
          QueryChunk(i, o, NoScores) /\ UNCHANGED pureVars

Spec == Init /\ [][Next]_vars

(***************************************************************************)
(* Specification of the merger as a pure function: Init draws the match    *)
(* list, Merge applies the merger, MergeAgain applies it to its own        *)
(* output.  Match candidates carry the time range of a stored record, so   *)
(* start_time <= end_time.                                                 *)
(***************************************************************************)
MergeConfidences == {60, 90}

MergeCandidates ==
    { [start_time |-> s, end_time |-> e, text |-> NoText,
       confidence |-> c, segment_index |-> 0] :
        s \in 0..MaxTime, e \in 0..MaxTime, c \in MergeConfidences }

BoundedMatchLists ==
    UNION { [1..n -> { m \in MergeCandidates : m.start_time <= m.end_time }] :
            n \in 0..MaxMatches }

Cand(s, e, c) ==
    [start_time |-> s, end_time |-> e, text |-> NoText,
     confidence |-> c, segment_index |-> 0]

\* spec.md section 8, "Merge example", in hundredths.
MergeExampleInput == <<Cand(0, 500, 90), Cand(400, 1000, 80), Cand(2000, 2500, 60)>>
MergeExampleOutput == <<Cand(0, 1000, 90), Cand(2000, 2500, 60)>>

IdleService ==
    /\ cfg = [pinecone_key |-> TRUE, openai_key |-> TRUE, client |-> TRUE,
              index_exists |-> TRUE]
    /\ self_index = FALSE
    /\ index = {}
    /\ stores = 0
    /\ pc = "off"
    /\ reg = NoReg
    /\ cmp = NoCmp
    /\ calls = <<>>
    /\ result = NoResult
    /\ tasks = 0

InitMerge ==
    /\ m_pc = "input"
    /\ m_in \in BoundedMatchLists \cup {MergeExampleInput}
    /\ m_out = <<>>
    /\ m_again = <<>>
    /\ IdleService
    /\ IdleThreshold
    /\ IdleChunk
    /\ IdlePool

Merge ==
    /\ m_pc = "input"
    /\ m_out' = MergeOverlappingMatches(m_in)
    /\ m_pc' = "merged"
    /\ UNCHANGED <<m_in, m_again>>
    /\ UNCHANGED <<sysVars, thresholdVars, chunkVars, poolVars>>

MergeAgain ==
    /\ m_pc = "merged"
    /\ m_again' = MergeOverlappingMatches(m_out)
    /\ m_pc' = "remerged"
    /\ UNCHANGED <<m_in, m_out>>
    /\ UNCHANGED <<sysVars, thresholdVars, chunkVars, poolVars>>

NextMerge == Merge \/ MergeAgain

SpecMerge == InitMerge /\ [][NextMerge]_vars

(***************************************************************************)
(* Specification of the threshold policy as a pure function of the length  *)
(* of the secondary text and of the caller's threshold.                    *)
(***************************************************************************)
MaxLength == 600

CallerThresholds == {50, 70, 95}

InitThreshold ==
    /\ a_pc = "input"
    /\ a_length \in 0..MaxLength
    /\ a_threshold \in CallerThresholds
    /\ a_adjusted = 0
    /\ IdleMerge
    /\ IdleService
    /\ IdleChunk
    /\ IdlePool

AdjustThreshold ==
    /\ a_pc = "input"
    /\ a_adjusted' = AdjustedThreshold(a_length, a_threshold)
    /\ a_pc' = "applied"
    /\ UNCHANGED <<a_length, a_threshold, mergeVars, sysVars, chunkVars, poolVars>>

NextThreshold == AdjustThreshold

SpecThreshold == InitThreshold /\ [][NextThreshold]_vars

(***************************************************************************)
(* Specification of the worker pool of search_content_matches_optimized:   *)
(* "with ThreadPoolExecutor(max_workers=min(8, len(chunk_args))) as        *)
(* executor: results = list(executor.map(process_chunk, chunk_args))".     *)
(* Init draws the number of chunk texts.  executor.map submits the work    *)
(* items one after the other; a submit starts a worker thread when no      *)
(* worker is idle and fewer than max_workers threads exist; a thread takes *)
(* the items from the queue one at a time; each item is one call of        *)
(* process_chunk, which issues at most one index query.                    *)
(***************************************************************************)
MaxChunks == 9

worker_limit == 8

MaxWorkersPerChunk(chunk_args) == chunk_args

\* max_workers=min(8, len(chunk_args))
MaxWorkers(chunk_args) == Min(worker_limit, chunk_args)

\* The calls of process_chunk that have started and not returned
InFlight == p_taken - Cardinality(p_done)

InitPool ==
    /\ p_pc = "input"
    /\ p_chunks \in 0..MaxChunks
    /\ p_max_workers = 0
    /\ p_threads = 0
    /\ p_submitted = 0
    /\ p_taken = 0
    /\ p_idle = 0
    /\ p_done = {}
    /\ IdleMerge
    /\ IdleThreshold
    /\ IdleChunk
    /\ IdleService

\* "if not chunk_texts: return {...}" and, with chunk texts, the constructor
\* of the executor, which raises ValueError unless max_workers is positive.
CreateExecutor ==
    /\ p_pc = "input"
    /\ IF p_chunks = 0
       THEN /\ p_pc' = "returned"
            /\ p_max_workers' = p_max_workers
       ELSE /\ p_max_workers' = MaxWorkers(p_chunks)
            /\ p_pc' = IF MaxWorkers(p_chunks) <= 0 THEN "value_error" ELSE "mapping"
    /\ UNCHANGED <<p_chunks, p_threads, p_submitted, p_taken, p_idle, p_done>>
    /\ UNCHANGED <<mergeVars, thresholdVars, chunkVars, sysVars>>

\* executor.submit: the item is queued; an idle worker is claimed if there
\* is one, otherwise a thread is started if fewer than max_workers exist.
Submit ==
    /\ p_pc = "mapping"
    /\ p_submitted < p_chunks
    /\ p_submitted' = p_submitted + 1
    /\ IF p_idle > 0
       THEN /\ p_idle' = p_idle - 1
            /\ p_threads' = p_threads
       ELSE /\ p_idle' = p_idle
            /\ p_threads' = IF p_threads < p_max_workers THEN p_threads + 1
                            ELSE p_threads
    /\ UNCHANGED <<p_pc, p_chunks, p_max_workers, p_taken, p_done>>
    /\ UNCHANGED <<mergeVars, thresholdVars, chunkVars, sysVars>>

\* A worker thread that runs no item takes the next item of the queue.
Take ==
    /\ p_pc = "mapping"
    /\ p_taken < p_submitted
    /\ InFlight < p_threads
    /\ p_taken' = p_taken + 1
    /\ UNCHANGED <<p_pc, p_chunks, p_max_workers, p_threads, p_submitted, p_idle, p_done>>
    /\ UNCHANGED <<mergeVars, thresholdVars, chunkVars, sysVars>>

\* process_chunk returns for item i; its worker becomes idle.
Finish(i) ==
    /\ p_pc = "mapping"
    /\ i \in (1..p_taken) \ p_done
    /\ p_done' = p_done \cup {i}
    /\ p_idle' = p_idle + 1
    /\ UNCHANGED <<p_pc, p_chunks, p_max_workers, p_threads, p_submitted, p_taken>>
    /\ UNCHANGED <<mergeVars, thresholdVars, chunkVars, sysVars>>

\* list(...) has every result and the with block is left.
Join ==
    /\ p_pc = "mapping"
    /\ p_done = 1..p_chunks
    /\ p_pc' = "joined"
    /\ UNCHANGED <<p_chunks, p_max_workers, p_threads, p_submitted, p_taken, p_idle, p_done>>
    /\ UNCHANGED <<mergeVars, thresholdVars, chunkVars, sysVars>>

NextPool ==
    \/ CreateExecutor
    \/ Submit
    \/ Take
    \/ \E i \in 1..MaxChunks : Finish(i)
    \/ Join

SpecPool == InitPool /\ [][NextPool]_vars

(***************************************************************************)
(* Specification of the chunkers as functions of a transcript: Init draws  *)
(* the transcript and the chunking configuration, ChunkFirst and           *)
(* ChunkSecond call chunk_transcription on it twice, Generate calls        *)
(* _generate_chunks on it.  Segments have start <= end.                    *)
(***************************************************************************)
MaxSegments == 2

\* validate_chunking_config (the keys are all present in the records here)
ValidateChunkingConfig(chunking_config) ==
    /\ chunking_config.max_chunk_size > 0
    /\ chunking_config.min_chunk_size > 0
    /\ chunking_config.overlap_size >= 0
    /\ chunking_config.max_segment_length > 0

ChunkingConfigs ==
    { CHUNKING_CONFIG,
      [CHUNKING_CONFIG EXCEPT !.max_segment_length = 250],
      [CHUNKING_CONFIG EXCEPT !.segment_based = FALSE, !.overlap_size = 0] }

ChunkSegments ==
    { Seg(0, 0, t) : t \in {T_fox, T_two_sentences} }
    \cup { Seg(0, 301, t) : t \in {T_fox, T_blank, T_medium, T_one_sentence} }
    \cup { Seg(301, 1000, t) : t \in {T_fox, T_blank, T_medium, T_two_sentences,
                                      T_one_sentence} }

ChunkTranscripts ==
    { Whisper(segments) :
        segments \in UNION { [1..n -> ChunkSegments] : n \in 0..MaxSegments } }
    \cup {TR_text_only}

InitChunk ==
    /\ c_pc = "input"
    /\ c_config \in { c \in ChunkingConfigs : ValidateChunkingConfig(c) }
    /\ c_in \in ChunkTranscripts
    /\ c_out = <<>>
    /\ c_again = <<>>
    /\ c_stored = <<>>
    /\ IdleMerge
    /\ IdleThreshold
    /\ IdlePool
    /\ IdleService

KeptChunks(previous) == previous

\* "chunks = []": the list a call fills is created by the call; previous is
\* the list the call before it returned.
FreshChunks(previous) == <<>>

\* The first call of chunk_transcription(c_in, c_config)
ChunkFirst ==
    LET c == ChunkTranscription(c_in, c_config)
    IN  /\ c_pc = "input"
        /\ c_pc' = IF c.diverges THEN "chunk_hung" ELSE "chunked"
        /\ c_out' = IF c.diverges THEN <<>> ELSE FreshChunks(<<>>) \o c.chunks
        /\ UNCHANGED <<c_config, c_in, c_again, c_stored>>
        /\ UNCHANGED <<mergeVars, thresholdVars, poolVars, sysVars>>

\* The second call, with the same arguments
ChunkSecond ==
    LET c == ChunkTranscription(c_in, c_config)
    IN  /\ c_pc = "chunked"
        /\ c_pc' = "rechunked"
        /\ c_again' = FreshChunks(c_out) \o c.chunks
        /\ UNCHANGED <<c_config, c_in, c_out, c_stored>>
        /\ UNCHANGED <<mergeVars, thresholdVars, poolVars, sysVars>>

\* _generate_chunks(c_in, file_metadata), which reads config.CHUNKING_CONFIG
Generate ==
    LET g == GenerateChunks(c_in)
    IN  /\ c_pc = "rechunked"
        /\ c_pc' = IF g.diverges THEN "generate_hung" ELSE "generated"
        /\ c_stored' = IF g.diverges THEN <<>> ELSE g.chunks
        /\ UNCHANGED <<c_config, c_in, c_out, c_again>>
        /\ UNCHANGED <<mergeVars, thresholdVars, poolVars, sysVars>>

NextChunk == ChunkFirst \/ ChunkSecond \/ Generate

SpecChunk == InitChunk /\ [][NextChunk]_vars

(***************************************************************************)
(* C1 - C3: the merger.                                                    *)
(***************************************************************************)
IsSortedByStart(s) ==
    \A i \in 1..(Len(s) - 1) : s[i].start_time <= s[i + 1].start_time

IsMaximal(s) ==
    \A i \in 1..(Len(s) - 1) :
        s[i + 1].start_time >= s[i].end_time + overlap_tolerance

\* C1: the merger's output is sorted ascending by start_time and maximal:
\* each entry starts at least the tolerance after the end of the entry
\* before it, so no two consecutive entries satisfy the merge rule.
C1_MergedSortedMaximal ==
    m_pc # "input" =>
        /\ IsSortedByStart(m_out)
        /\ IsMaximal(m_out)
        /\ \A i \in 1..(Len(m_out) - 1) : ~HasOverlap(m_out[i], m_out[i + 1])

\* A run in which candidates were merged and two entries remain.
C1_Witness ==
    /\ m_pc = "merged"
    /\ Len(m_in) = 3
    /\ Len(m_out) = 2
    /\ m_in[1].start_time > m_in[2].start_time

\* The candidates an output entry k was merged from: those starting at or
\* after its start and before the start of entry k + 1.
GroupOf(k) ==
    { i \in 1..Len(m_in) :
        /\ m_in[i].start_time >= m_out[k].start_time
        /\ k < Len(m_out) => m_in[i].start_time < m_out[k + 1].start_time }

SetMin(S) == CHOOSE x \in S : \A y \in S : x <= y
SetMax(S) == CHOOSE x \in S : \A y \in S : x >= y

\* C2: every output entry spans from the smallest start_time to the largest
\* end_time of the candidates merged into it and carries the maximum of
\* their confidences; every candidate belongs to one entry; the example of
\* the specification merges to [(0,10,0.9), (20,25,0.6)].
C2_MergedSpanAndMaxConfidence ==
    m_pc # "input" =>
        /\ (m_in = <<>>) <=> (m_out = <<>>)
        /\ \A i \in 1..Len(m_in) : \E k \in 1..Len(m_out) : i \in GroupOf(k)
        /\ \A k \in 1..Len(m_out) :
            /\ GroupOf(k) # {}
            /\ m_out[k].start_time = SetMin({ m_in[i].start_time : i \in GroupOf(k) })
            /\ m_out[k].end_time = SetMax({ m_in[i].end_time : i \in GroupOf(k) })
            /\ m_out[k].confidence = SetMax({ m_in[i].confidence : i \in GroupOf(k) })
        /\ m_in = MergeExampleInput => m_out = MergeExampleOutput

C2_Witness ==
    /\ m_pc = "merged"
    /\ m_in = MergeExampleInput
    /\ m_out = MergeExampleOutput

\* C3: merging is idempotent: a list that is already maximal is returned
\* unchanged, and so is the merger's own output.
C3_MergeIdempotent ==
    /\ (m_pc # "input" /\ IsMaximal(m_in)) => m_out = m_in
    /\ m_pc = "remerged" => m_again = m_out

C3_Witness ==
    /\ m_pc = "remerged"
    /\ Len(m_in) = 3
    /\ Len(m_out) = 2
    /\ m_again = m_out

(***************************************************************************)
(* C4 - C10: gates, thresholds and the reference set.                      *)
(***************************************************************************)
InComparison == cmp.last_chunk # 0

\* The lexical gate as the specification states it.
LexicalGate(chunk_text, record_text) ==
    LET chunk_words == WordsOf(chunk_text)
        shared == chunk_words \cap WordsOf(record_text)
        ratio == IF TextLen(chunk_text) < 100 THEN 70
                 ELSE IF TextLen(chunk_text) > 500 THEN 30
                 ELSE 50
    IN  /\ chunk_words # {}
        /\ Cardinality(shared) * 100 >= ratio * Cardinality(chunk_words)

\* The ids of the records accepted for chunk i, in the order of acceptance
AcceptedIds(i) ==
    [k \in 1..Len(cmp.chunk_results[i]) |-> cmp.chunk_results[i][k].id]

\* The ids of the last query's matches that satisfy P, in query order
IdsPassing(P(_)) ==
    LET passing == SelectSeq(cmp.query_matches, P)
    IN  [k \in 1..Len(passing) |-> passing[k].id]

\* C4: a record returned by a chunk's query becomes a match candidate if and
\* only if its score is at least the adjusted threshold and it passes the
\* length-adaptive lexical gate (0.7 / 0.5 / 0.3); no candidate fails either
\* gate, and a chunk without words passes no record.
C4_CandidateIffBothGates ==
    InComparison =>
        LET i == cmp.last_chunk
            Both(m) == /\ m.score >= cmp.adjusted_threshold
                       /\ LexicalGate(cmp.chunk_texts[i], m.metadata.text)
        IN  /\ AcceptedIds(i) = IdsPassing(Both)
            /\ \A j \in cmp.done : \A k \in 1..Len(cmp.chunk_results[j]) :
                  /\ cmp.chunk_results[j][k].confidence >= cmp.adjusted_threshold
                  /\ LexicalGate(cmp.chunk_texts[j], cmp.chunk_results[j][k].text)
            /\ \A j \in cmp.done :
                  WordsOf(cmp.chunk_texts[j]) = {} => cmp.chunk_results[j] = <<>>
            /\ (pc = "returned" /\ result.success) =>
                  /\ cmp.all_matches = Concat(cmp.chunk_results, 1)
                  /\ result.num_matches = Len(cmp.all_matches)

\* A comparison that accepted one record and rejected another one whose
\* score passed the semantic gate.
C4_Witness ==
    /\ pc = "returned"
    /\ result.success
    /\ Len(cmp.all_matches) >= 1
    /\ \E k \in 1..Len(cmp.query_matches) :
          /\ cmp.query_matches[k].score >= cmp.adjusted_threshold
          /\ \A j \in 1..Len(cmp.chunk_results[cmp.last_chunk]) :
                cmp.chunk_results[cmp.last_chunk][j].id # cmp.query_matches[k].id

Disjoint(chunk_text, record_text) ==
    WordsOf(chunk_text) \cap WordsOf(record_text) = {}

\* C5: a record whose words are disjoint from the chunk's words never becomes
\* a match candidate and never contributes to a merged match, whatever its
\* score.
C5_DisjointNeverMatches ==
    InComparison =>
        /\ \A j \in cmp.done : \A k \in 1..Len(cmp.chunk_results[j]) :
              ~Disjoint(cmp.chunk_texts[j], cmp.chunk_results[j][k].text)
        /\ \A k \in 1..Len(cmp.query_matches) :
              Disjoint(cmp.chunk_texts[cmp.last_chunk], cmp.query_matches[k].metadata.text)
                  => \A j \in 1..Len(cmp.chunk_results[cmp.last_chunk]) :
                        cmp.chunk_results[cmp.last_chunk][j].id # cmp.query_matches[k].id
        /\ (pc = "returned" /\ result.success) =>
              \A k \in 1..Len(result.matches) :
                  \E j \in cmp.done :
                      ~Disjoint(cmp.chunk_texts[j], result.matches[k].text)

\* The index returned a record with disjoint words and the maximal score.
C5_Witness ==
    /\ pc = "returned"
    /\ result.success
    /\ \E k \in 1..Len(cmp.query_matches) :
          /\ cmp.query_matches[k].score = 100
          /\ Disjoint(cmp.chunk_texts[cmp.last_chunk], cmp.query_matches[k].metadata.text)

\* C6: the adjusted threshold is 0.5 for a length below 100 and 0.3 for a
\* length above 500, whatever the caller's threshold, and the caller's
\* threshold for a length from 100 to 500.
C6_AdjustedThresholdPiecewise ==
    a_pc = "applied" =>
        /\ a_length < 100 => a_adjusted = 50
        /\ a_length > 500 => a_adjusted = 30
        /\ (a_length >= 100 /\ a_length <= 500) => a_adjusted = a_threshold
        /\ (a_length = 40 /\ a_threshold = 95) => a_adjusted = 50
        /\ a_length = 600 => a_adjusted = 30

C6_Witness ==
    /\ a_pc = "applied"
    /\ a_length = 40
    /\ a_threshold = 95
    /\ a_adjusted = 50

Piecewise(length, threshold) ==
    IF length < 100 THEN 50 ELSE IF length > 500 THEN 30 ELSE threshold

HoldsFoxDog ==
    /\ Cardinality(index) = 2
    /\ \E r \in index : /\ r.metadata.text = Strip(T_fox)
                        /\ r.metadata.start_time = 0
                        /\ r.metadata.end_time = 300
    /\ \E r \in index : /\ r.metadata.text = Strip(T_dog)
                        /\ r.metadata.start_time = 300
                        /\ r.metadata.end_time = 600

FoxComparison ==
    /\ pc = "returned"
    /\ cmp.transcript = TR_fox
    /\ cmp.threshold = 70
    /\ HoldsFoxDog
    /\ \E k \in 1..Len(cmp.query_matches) :
          /\ cmp.query_matches[k].metadata.text = Strip(T_fox)
          /\ cmp.query_matches[k].score >= 50

\* C8: with (0,3,"the quick brown fox") and (3,6,"jumps over the lazy dog")
\* registered, comparing (0,2,"the quick brown fox") at 0.7 returns exactly
\* one merged match, with the reference range (0,3), when the query returns
\* the identical-text record with a score of at least 0.5, whatever the
\* score of the other record.
C8_FoxScenario ==
    FoxComparison =>
        /\ result.success
        /\ Len(result.matches) = 1
        /\ result.matches[1].start_time = 0
        /\ result.matches[1].end_time = 300

\* The scenario with the second record at the maximal score.
C8_Witness ==
    /\ FoxComparison
    /\ reg.kind = "primary"
    /\ \E k \in 1..Len(cmp.query_matches) :
          /\ cmp.query_matches[k].metadata.text = Strip(T_dog)
          /\ cmp.query_matches[k].score = 100
    /\ Len(result.matches) = 1

FirstIndexOf(call) ==
    IF \E k \in 1..Len(calls) : calls[k] = call
    THEN CHOOSE k \in 1..Len(calls) :
            calls[k] = call /\ \A j \in 1..(k - 1) : calls[j] # call
    ELSE 0

LastPrimarySucceeded == reg.kind = "primary" /\ reg.ok

\* C9: a registration issues delete_all before any upsert; when it succeeds
\* the index holds only the records it wrote; a comparison that follows
\* draws no candidate from a record of an earlier registration, and finds
\* nothing for the content of the first reference.
C9_ReRegistrationClears ==
    /\ (reg.kind = "primary" /\ pc \in {"store", "wait", "returned"}
           /\ FirstIndexOf("upsert") # 0)
          => /\ FirstIndexOf("delete_all") # 0
             /\ FirstIndexOf("delete_all") < FirstIndexOf("upsert")
    /\ (pc = "returned" /\ result.op = "store_primary" /\ result.success)
          => /\ index # {}
             /\ \A r \in index : r.id[1] = reg.call
    /\ (LastPrimarySucceeded /\ InComparison)
          => \A j \in cmp.done : \A k \in 1..Len(cmp.chunk_results[j]) :
                cmp.chunk_results[j][k].id[1] = reg.call
    /\ (LastPrimarySucceeded /\ reg.call = 2 /\ reg.transcript = TR_foxdog
           /\ pc = "returned" /\ cmp.transcript = TR_cat /\ result.success)
          => result.matches = <<>>

\* TR_cat registered, then TR_foxdog; the comparison of TR_cat that follows
\* gets the maximal score for a record and returns no match.
C9_Witness ==
    /\ LastPrimarySucceeded
    /\ reg.call = 2
    /\ reg.transcript = TR_foxdog
    /\ pc = "returned"
    /\ cmp.transcript = TR_cat
    /\ result.success
    /\ \E k \in 1..Len(cmp.query_matches) : cmp.query_matches[k].score = 100
    /\ result.matches = <<>>

\* C10 as stated: all the records of the index were written by one store
\* call.
C10_SingleStoreCall ==
    \A r1, r2 \in index : r1.id[1] = r2.id[1]

(***************************************************************************)
(* C11 - C20: serialization, the readiness waiter and failures.            *)
(***************************************************************************)
RECURSIVE CountOf(_, _)
CountOf(call, log) ==
    IF log = <<>> THEN 0
    ELSE (IF Head(log) = call THEN 1 ELSE 0) + CountOf(call, Tail(log))

C12_ProbeExhaustedStillSuccess ==
    (pc = "returned" /\ result.op \in {"store_primary", "store_chunks"}
        /\ CountOf("fetch", calls) > 0 /\ ~reg.ready)
       => /\ result.success
          /\ ~result.uncaught
          /\ reg.ok
          /\ result.chunks_stored = Len(reg.transcript.segments)
          /\ index # {}

\* A registration whose ten fetches all failed.
C12_Witness ==
    /\ pc = "returned"
    /\ result.op = "store_primary"
    /\ CountOf("fetch", calls) = max_retries
    /\ ~reg.ready
    /\ result.success

\* C13 as stated: the result of a registration whose probe was exhausted
\* differs from the result of the same registration with a probe that
\* succeeded.
C13_DegradedResultFlagged ==
    (pc = "returned" /\ result.op = "store_primary" /\ result.success /\ ~reg.ready)
       => result # StoreSuccess("store_primary", Len(reg.transcript.segments))

\* C14: the waiter issues at most max_retries fetches; it returns Ready only
\* after a fetch and GaveUp only after max_retries of them; every iteration
\* that does not end the loop is one more attempt, so that the loop ends
\* after at most max_retries iterations.
C14_WaiterTerminates ==
    /\ [](/\ CountOf("fetch", calls) <= max_retries
          /\ pc = "wait" => /\ reg.attempt = CountOf("fetch", calls)
                            /\ reg.attempt < max_retries
          /\ (pc = "returned" /\ result.op \in {"store_primary", "store_chunks"}
                /\ result.success)
                => /\ CountOf("fetch", calls) >= 1
                   /\ ~reg.ready => CountOf("fetch", calls) = max_retries)
    /\ [][pc = "wait" =>
            /\ calls' = Append(calls, "fetch")
            /\ \/ pc' = "returned"
               \/ pc' = "wait" /\ reg'.attempt = reg.attempt + 1]_vars

\* Ready on the third fetch, after two unsuccessful attempts.
C14_Witness ==
    /\ pc = "returned"
    /\ reg.ready
    /\ CountOf("fetch", calls) = 3

\* C15: a chunk without an embedding is skipped and is not fatal.  With at
\* least one embedding the comparison goes on to the queries, issues one
\* only for the chunks that have an embedding, and fails only if a query
\* raises; it aborts at the embeddings, with success = false, no match and
\* no query, exactly when every embedding is null.  (The queries are counted
\* in comparisons that embedded once, without a fallback.)
C15_EmbeddingFailureSkipped ==
    (cmp.entry # "none" /\ cmp.batch_embeddings # <<>>) =>
        LET batch == cmp.batch_embeddings
            some == \E k \in 1..Len(batch) : batch[k]
            once == CountOf("embed", calls) = 1
        IN  /\ ~some => /\ pc = "returned"
                        /\ ~result.success
                        /\ result.matches = <<>>
                        /\ once => /\ CountOf("list_indexes", calls) = 0
                                   /\ CountOf("query", calls) = 0
            /\ some => /\ pc \in {"query", "fallback", "returned"}
                       /\ (pc = "returned" /\ ~cmp.raised) => result.success
                       /\ (pc = "returned" /\ ~result.success) => cmp.raised
                       /\ \A i \in cmp.done : ~batch[i] => cmp.chunk_results[i] = <<>>
                       /\ once => CountOf("list_indexes", calls)
                                    = Cardinality({ i \in cmp.done : batch[i] })

\* The first of two chunks has no embedding; the second one finds a match.
C15_Witness ==
    /\ pc = "returned"
    /\ result.success
    /\ cmp.batch_embeddings = <<FALSE, TRUE>>
    /\ cmp.done = {1, 2}
    /\ CountOf("query", calls) = 1
    /\ Len(result.matches) >= 1

\* C16 as stated: when the query of one chunk raises and the query of another
\* chunk answers, the comparison still returns success = true.
C16_QueryFailureSkipped ==
    (pc = "returned" /\ cmp.entry # "none" /\ cmp.raised /\ Cardinality(cmp.done) >= 2)
       => result.success

ConfigurationValid ==
    /\ cfg.pinecone_key
    /\ cfg.openai_key
    /\ cfg.client
    /\ cfg.index_exists

\* C17 as stated: with missing credentials or an absent index, comparison and
\* registration return success = false without an embedding call, a query
\* or an upsert.
C17_InvalidConfigurationFailsAtOnce ==
    (pc = "returned" /\ ~ConfigurationValid
        /\ result.op \in {"store_primary", "search", "search_optimized"})
       => /\ ~result.success
          /\ CountOf("embed", calls) = 0
          /\ CountOf("query", calls) = 0
          /\ CountOf("upsert", calls) = 0

AllBlank(t) ==
    /\ t.segments # <<>>
    /\ \A k \in 1..Len(t.segments) : IsBlank(Strip(t.segments[k].text))

\* C18 as stated: a comparison of a blank text and a registration of
\* segments that are all blank return a failure without an embed, query,
\* upsert or delete_all call.
C18_BlankInputShortCircuits ==
    /\ (pc = "returned" /\ cmp.entry # "none" /\ cmp.transcript.success
          /\ IsBlank(Strip(cmp.transcript.text)))
          => /\ ~result.success
             /\ calls = <<>>
    /\ (reg.kind = "primary" /\ AllBlank(reg.transcript)
          /\ (pc = "store" \/ (pc = "returned" /\ result.op = "store_primary")))
          => /\ CountOf("delete_all", calls) = 0
             /\ CountOf("embed", calls) = 0
             /\ CountOf("upsert", calls) = 0
             /\ pc = "returned" => ~result.success

RECURSIVE SequentialAllMatches(_, _, _)
SequentialAllMatches(chunk_results, k, all_matches) ==
    IF k > Len(chunk_results) THEN all_matches
    ELSE SequentialAllMatches(chunk_results, k + 1, all_matches \o chunk_results[k])

C21_AtMostEightInFlight ==
    /\ InFlight <= worker_limit
    /\ InFlight <= p_threads
    /\ p_threads <= p_max_workers
    /\ p_pc # "value_error"
    /\ p_pc \in {"mapping", "joined"} =>
          /\ p_max_workers = Min(worker_limit, p_chunks)
          /\ p_max_workers >= 1

\* Nine chunks: eight calls in flight, the ninth submitted and waiting.
C21_Witness ==
    /\ p_pc = "mapping"
    /\ p_chunks = worker_limit + 1
    /\ p_submitted = p_chunks
    /\ InFlight = worker_limit
    /\ p_taken < p_submitted

\* C22 as stated: a comparison that reached the embedding provider issued
\* exactly one batched embedding call, whichever path it took.
C22_OneEmbeddingCall ==
    (pc = "returned" /\ cmp.entry # "none" /\ cmp.batch_embeddings # <<>>)
       => CountOf("embed", calls) = 1

\* The first call of chunk_transcription has returned
Chunked == c_pc \in {"chunked", "rechunked", "generated", "generate_hung"}

C25_TextBasedChunkingTerminates ==
    (c_pc # "input" /\ c_in.segments = <<>> /\ ~IsBlank(c_in.text)
        /\ c_config = CHUNKING_CONFIG /\ ValidateChunkingConfig(c_config))
       => c_pc # "chunk_hung"

\* C26 as stated: no registration stays in the word-window loop of
\* _split_long_segment; store_transcription_chunks returns for every
\* transcript.
C26_RegistrationTerminates ==
    ~(pc = "hung" /\ reg.kind # "none" /\ cmp.entry = "none")

\* text, start_time and end_time of the chunks of a list
TextsAndTimes(chunks) ==
    [k \in 1..Len(chunks) |->
        <<chunks[k].text, chunks[k].start_time, chunks[k].end_time>>]

\* C27 as stated: for every transcript, _generate_chunks returns chunks with
\* the texts and the times of the chunks that chunk_transcription returns
\* under config.CHUNKING_CONFIG.
C27_SameChunksAsReference ==
    (c_pc \in {"generated", "generate_hung"} /\ c_config = CHUNKING_CONFIG)
       => /\ c_pc = "generated"
          /\ TextsAndTimes(c_stored) = TextsAndTimes(c_out)

\* C28 as stated: a candidate that starts exactly where the current interval
\* ends is not merged into it: two such candidates give two entries.
C28_AdjacentNotMerged ==
    (m_pc # "input" /\ Len(m_in) = 2
        /\ m_in[1].start_time < m_in[1].end_time
        /\ m_in[2].start_time = m_in[1].end_time
        /\ m_in[2].start_time < m_in[2].end_time)
       => m_out = m_in

\* C29 as stated: every chunk of segment-based chunking has a text of at most
\* max_segment_length characters.
C29_ChunksBounded ==
    Chunked =>
        \A k \in 1..Len(c_out) :
            c_out[k].chunk_type \in {"segment", "sentence"}
                => TextLen(c_out[k].text) <= c_config.max_segment_length

\* C30 as stated: the chunks_stored of a successful registration is the
\* number of records the registration upserted.
C30_ChunksStoredIsRecordCount ==
    (pc = "returned" /\ result.op = "store_primary" /\ result.success)
       => result.chunks_stored = Cardinality({ r \in index : r.id[1] = reg.call })

====
